---- MODULE Spec2Model ----
(***************************************************************************)
(* Model of the express-ts-setup scaffold: the asyncHandler adapter, the   *)
(* user controllers, the user router mounted under /api/v1/users, the      *)
(* process bootstrap of index.ts and the ApiResponse / ApiError value      *)
(* objects.                                                                *)
(***************************************************************************)
EXTENDS Integers, Sequences, FiniteSets, TLC

VARIABLES
    \* --- one request travelling through the router and the adapter
    pc,         \* "idle" | "dispatch" | "call" | "pending" | "settled" | "done"
    via,        \* "router": dispatched by the route table; "direct": the adapted handler is called by some other caller
    req,        \* [method, path]
    idx,        \* index of the route entry that was matched last (0: none yet)
    handler,    \* descriptor of the wrapped handler being run
    invoked,    \* names of the controllers invoked for this request, in order
    res,        \* the response object: [statusCode, body, sent, writes]
    resLeft,    \* the response as the wrapped handler left it when it returned or threw
    promise,    \* the promise returned by the wrapped handler: [state, val]
    nextCalls,  \* calls of the continuation next: [by, arg]
    escaped,    \* the exception that propagated out of the adapted handler to its caller
    outcome,    \* what the framework did with the request: "pending" | "notfound" | "errorhandler"
    \* --- process bootstrap (index.ts)
    bootPc,     \* position in index.ts
    envPORT,    \* process.env.PORT
    dbPromise,  \* the promise returned by connectDB()
    thenPromise,\* the promise returned by .then(...)
    errorListener, \* app.on("error", ...) has been registered
    listenCalls,\* arguments of the calls of app.listen
    log,        \* console.log lines
    exitCode,   \* process exit code (NoExit while running)
    \* --- value objects
    made        \* the last object constructed: [kind, args, obj]

reqVars == <<pc, via, req, idx, handler, invoked, res, resLeft, promise, nextCalls, escaped, outcome>>
bootVars == <<bootPc, envPORT, dbPromise, thenPromise, errorListener, listenCalls, log, exitCode>>
vars == <<pc, via, req, idx, handler, invoked, res, resLeft, promise, nextCalls, escaped, outcome,
          bootPc, envPORT, dbPromise, thenPromise, errorListener, listenCalls, log, exitCode, made>>

(***************************************************************************)
(* JavaScript values.                                                      *)
(***************************************************************************)
Undefined == [undef |-> TRUE]
Str(s) == [str |-> s]
Num(n) == [num |-> n]
ResRef == [ref |-> "res"]

\* JavaScript truthiness of the values used here (the operand of `||` and `if`).
Truthy(v) ==
    IF v = Undefined THEN FALSE
    ELSE IF "str" \in DOMAIN v THEN v.str # ""
    ELSE IF "num" \in DOMAIN v THEN v.num # 0
    ELSE TRUE

\* Bound of the model: the longest request path, in segments.
MaxPathLen == 5

(***************************************************************************)
(* The response object.                                                    *)
(***************************************************************************)
DefaultStatus == 200
NoBody == [kind |-> "none"]
EmptyList == [kind |-> "array", data |-> <<>>]
EmptyObject == [kind |-> "object", data |-> <<>>]
UserRecord == [kind |-> "object",
               data |-> [id |-> 1, username |-> "anson", email |-> "anson@ansonthedev.com"]]

FreshRes == [statusCode |-> DefaultStatus, body |-> NoBody, sent |-> FALSE, writes |-> 0]

\* What a wrapped handler does while it runs.
Status(code) == [op |-> "status", code |-> code]
Send(body) == [op |-> "send", body |-> body]
CallNext(arg) == [op |-> "next", arg |-> arg]

ApplyOp(r, o) ==
    IF o.op = "status" THEN [r EXCEPT !.statusCode = o.code]
    ELSE IF o.op = "send" THEN [r EXCEPT !.body = o.body, !.sent = TRUE, !.writes = @ + 1]
    ELSE r

RECURSIVE ApplyOps(_, _)
ApplyOps(r, ops) ==
    IF ops = <<>> THEN r ELSE ApplyOps(ApplyOp(r, Head(ops)), Tail(ops))

RECURSIVE HandlerNextCalls(_)
HandlerNextCalls(ops) ==
    IF ops = <<>> THEN <<>>
    ELSE IF Head(ops).op = "next"
         THEN <<[by |-> "handler", arg |-> Head(ops).arg]>> \o HandlerNextCalls(Tail(ops))
         ELSE HandlerNextCalls(Tail(ops))

(***************************************************************************)
(* Wrapped handlers.  A descriptor says whether the function is declared   *)
(* async, what it does to the response (and to next) while it runs, and    *)
(* how it ends: "resolve" / "reject" (its promise settles that way with    *)
(* val) or "throw" (it throws val while it runs).                          *)
(***************************************************************************)
getUsers ==
    [name |-> "getUsers", async |-> TRUE, ops |-> <<Send(EmptyList)>>,
     end |-> "resolve", val |-> Undefined]

getUserById ==
    [name |-> "getUserById", async |-> TRUE, ops |-> <<Send(EmptyObject)>>,
     end |-> "resolve", val |-> ResRef]

\* createUser without .status(201).
createUserDefaultStatus ==
    [name |-> "createUser", async |-> TRUE, ops |-> <<Send(UserRecord)>>,
     end |-> "resolve", val |-> ResRef]

createUser ==
    [name |-> "createUser", async |-> TRUE, ops |-> <<Status(201), Send(UserRecord)>>,
     end |-> "resolve", val |-> ResRef]

\* loginUser answering the request.
loginUserResponds ==
    [name |-> "loginUser", async |-> TRUE, ops |-> <<Send(EmptyObject)>>,
     end |-> "resolve", val |-> ResRef]

loginUser ==
    [name |-> "loginUser", async |-> TRUE, ops |-> <<>>,
     end |-> "resolve", val |-> Undefined]

Controllers == {getUsers, getUserById, createUser, loginUser}

\* Arbitrary handlers a caller may pass to asyncHandler.
Values == {Undefined, Str("E1"), Str("E2"), ResRef}
GenericOps == {<<>>,
               <<Send(EmptyObject)>>,
               <<Status(500), Send(EmptyList)>>,
               <<CallNext(Undefined)>>}
GenericHandlers ==
    {[name |-> "h", async |-> a, ops |-> o, end |-> e, val |-> v] :
        a \in BOOLEAN, o \in GenericOps, e \in {"resolve", "reject", "throw"}, v \in Values}

NoHandler == [name |-> "none", async |-> TRUE, ops |-> <<>>, end |-> "resolve", val |-> Undefined]

(***************************************************************************)
(* asyncHandler:                                                           *)
(*   Promise.resolve(requestHandler(req, res, next)).catch((err) => next(err)) *)
(***************************************************************************)
\* requestHandler(req, res, next) is evaluated first, as the argument of
\* Promise.resolve: a throw of a function that is not async leaves the
\* adapted handler before any promise exists.  An async function never
\* throws to its caller; its throw rejects the promise it returns.
CallEscapes(h) == ~h.async /\ h.end = "throw"

\* The state the promise given to Promise.resolve settles in.
SettledState(h) == IF h.end = "resolve" THEN "resolved" ELSE "rejected"

\* .catch(() => next()): the failure value is dropped.
AdapterNextCallsNoArg(state, val) ==
    IF state = "rejected" THEN <<[by |-> "adapter", arg |-> Undefined]>> ELSE <<>>

\* .then(next, next): next is called however the promise settles.
AdapterNextCallsAlways(state, val) ==
    IF state \in {"rejected", "resolved"} THEN <<[by |-> "adapter", arg |-> val]>> ELSE <<>>

\* The calls of next made by the reaction registered with .catch.
AdapterNextCalls(state, val) ==
    IF state = "rejected" THEN <<[by |-> "adapter", arg |-> val]>> ELSE <<>>

Running == [running |-> TRUE]
NoPromise == [state |-> "none", val |-> Undefined]
NoException == [none |-> TRUE]

(***************************************************************************)
(* Route table: user.route.ts mounted by app.use("/api/v1/users", ...).    *)
(***************************************************************************)
\* The table with the login handler registered too.
RoutesWithLogin ==
    << [method |-> "GET", path |-> "/", handler |-> getUsers],
       [method |-> "GET", path |-> "/:id", handler |-> getUserById],
       [method |-> "POST", path |-> "/", handler |-> createUser],
       [method |-> "PUT", path |-> "/", handler |-> loginUser] >>

Routes ==
    << [method |-> "GET", path |-> "/", handler |-> getUsers],
       [method |-> "GET", path |-> "/:id", handler |-> getUserById],
       [method |-> "POST", path |-> "/", handler |-> createUser] >>

MountPath == <<"api", "v1", "users">>

Methods == {"GET", "HEAD", "POST", "PUT", "DELETE"}
Segments == {"api", "v1", "users", "42"}
Paths == UNION {[1..k -> Segments] : k \in 0..MaxPathLen}

Mounted(path) ==
    /\ Len(path) >= Len(MountPath)
    /\ SubSeq(path, 1, Len(MountPath)) = MountPath

Rest(path) == SubSeq(path, Len(MountPath) + 1, Len(path))

\* "/" matches the mount point itself, "/:id" exactly one further segment.
PathMatches(pattern, rest) ==
    IF pattern = "/" THEN rest = <<>> ELSE Len(rest) = 1

\* A route registered with router.get also serves HEAD.
MethodMatches(routeMethod, m) ==
    routeMethod = m \/ (m = "HEAD" /\ routeMethod = "GET")

RouteMatches(k, r) ==
    /\ Mounted(r.path)
    /\ MethodMatches(Routes[k].method, r.method)
    /\ PathMatches(Routes[k].path, Rest(r.path))

\* The first entry at or after position i that matches r (0: none).
FirstMatchFrom(i, r) ==
    LET ms == {k \in i..Len(Routes) : RouteMatches(k, r)}
    IN IF ms = {} THEN 0 ELSE CHOOSE k \in ms : \A j \in ms : k <= j

(***************************************************************************)
(* Request handling.                                                       *)
(***************************************************************************)
NoReq == [method |-> "NONE", path |-> <<>>]

FreshRequest(v, r, h, p) ==
    /\ via' = v
    /\ req' = r
    /\ idx' = 0
    /\ handler' = h
    /\ invoked' = IF h = NoHandler THEN <<>> ELSE <<h.name>>
    /\ res' = FreshRes
    /\ resLeft' = FreshRes
    /\ promise' = NoPromise
    /\ nextCalls' = <<>>
    /\ escaped' = NoException
    /\ outcome' = "pending"
    /\ pc' = p

\* A request arrives at the application and goes to the route table.
Receive ==
    /\ pc = "idle"
    /\ \E m \in Methods, p \in Paths :
           FreshRequest("router", [method |-> m, path |-> p], NoHandler, "dispatch")
    /\ UNCHANGED <<bootVars, made>>

\* A handler produced by asyncHandler(h) is called with (req, res, next) by
\* a caller other than the route table.
InvokeDirect ==
    /\ pc = "idle"
    /\ \E h \in GenericHandlers \cup Controllers : FreshRequest("direct", NoReq, h, "call")
    /\ UNCHANGED <<bootVars, made>>

\* The router walks the table from the entry after the last match.
Dispatch ==
    /\ pc = "dispatch"
    /\ LET k == FirstMatchFrom(idx + 1, req)
       IN IF k = 0
          THEN /\ outcome' = "notfound"
               /\ pc' = "done"
               /\ UNCHANGED <<idx, handler, invoked>>
          ELSE /\ idx' = k
               /\ handler' = Routes[k].handler
               /\ invoked' = Append(invoked, Routes[k].handler.name)
               /\ pc' = "call"
               /\ UNCHANGED outcome
    /\ UNCHANGED <<via, req, res, resLeft, promise, nextCalls, escaped, bootVars, made>>

\* The adapted handler runs: it calls the wrapped handler and, when that
\* call returns, registers the catch reaction on its promise.
AdaptedHandler ==
    /\ pc = "call"
    /\ res' = ApplyOps(res, handler.ops)
    /\ resLeft' = res'
    /\ nextCalls' = nextCalls \o HandlerNextCalls(handler.ops)
    /\ IF CallEscapes(handler)
       THEN /\ escaped' = handler.val
            /\ promise' = NoPromise
            /\ outcome' = IF via = "router" THEN "errorhandler" ELSE outcome
            /\ pc' = "done"
       ELSE /\ escaped' = NoException
            /\ promise' = [state |-> "pending", val |-> Undefined]
            /\ outcome' = outcome
            /\ pc' = "pending"
    /\ UNCHANGED <<via, req, idx, handler, invoked, bootVars, made>>

\* The promise of the wrapped handler settles.
PromiseSettles ==
    /\ pc = "pending"
    /\ promise' = [state |-> SettledState(handler), val |-> handler.val]
    /\ pc' = "settled"
    /\ UNCHANGED <<via, req, idx, handler, invoked, res, resLeft, nextCalls, escaped, outcome,
                   bootVars, made>>

\* A catch reaction that answers the request itself before calling next.
CatchReactionWrites ==
    /\ pc = "settled"
    /\ LET calls == AdapterNextCalls(promise.state, promise.val)
       IN /\ nextCalls' = nextCalls \o calls
          /\ res' = IF calls # <<>> THEN ApplyOps(res, <<Status(500), Send(EmptyObject)>>) ELSE res
          /\ pc' = "done"
          /\ outcome' = IF via = "router" /\ calls # <<>> THEN "errorhandler" ELSE outcome
    /\ UNCHANGED <<via, req, idx, handler, invoked, resLeft, promise, escaped, bootVars, made>>

\* The reaction registered with .catch runs (or is skipped on fulfilment).
\* Under the router, next(err) with a defined err goes to the error handler
\* and next(undefined) goes on to the following route.
CatchReaction ==
    /\ pc = "settled"
    /\ LET calls == AdapterNextCalls(promise.state, promise.val)
       IN /\ nextCalls' = nextCalls \o calls
          /\ IF via = "router" /\ calls # <<>>
             THEN IF calls[Len(calls)].arg = Undefined
                  THEN pc' = "dispatch" /\ outcome' = outcome
                  ELSE pc' = "done" /\ outcome' = "errorhandler"
             ELSE pc' = "done" /\ outcome' = outcome
    /\ UNCHANGED <<via, req, idx, handler, invoked, res, resLeft, promise, escaped,
                   bootVars, made>>

ServerUp ==
    /\ bootPc = "listening"
    /\ envPORT = Undefined
    /\ dbPromise = [state |-> "resolved", val |-> Undefined]
    /\ thenPromise = [state |-> "resolved", val |-> Undefined]
    /\ errorListener = TRUE
    /\ listenCalls = <<Num(8000)>>
    /\ log = <<<<"Server: http://localhost:", "undefined">>>>
    /\ exitCode = Running

NothingMade == [kind |-> "none"]

NoRequest ==
    /\ pc = "idle"
    /\ via = "router"
    /\ req = NoReq
    /\ idx = 0
    /\ handler = NoHandler
    /\ invoked = <<>>
    /\ res = FreshRes
    /\ resLeft = FreshRes
    /\ promise = NoPromise
    /\ nextCalls = <<>>
    /\ escaped = NoException
    /\ outcome = "pending"

Init ==
    /\ NoRequest
    /\ ServerUp
    /\ made = NothingMade

Next ==
    \/ Receive
    \/ InvokeDirect
    \/ Dispatch
    \/ AdaptedHandler
    \/ PromiseSettles
    \/ CatchReaction

Spec == Init /\ [][Next]_vars

(***************************************************************************)
(* Process bootstrap: index.ts.                                            *)
(*   connectDB().then(() => { app.on("error", ...); app.listen(...) })     *)
(*              .catch((err) => { console.log("ERR: ", err); process.exit(1) }) *)
(***************************************************************************)
DefaultPort == 8000

\* Values of process.env.PORT: unset, or a string.
PortValues == {Undefined, Str(""), Str("0"), Str("3000"), Str("8000"), Str("abc")}

\* connectDB is the place of the database connection; index.ts reacts to
\* both outcomes of the promise it returns.
DbErrors == {Str("ECONNREFUSED"), Str("EAUTH")}
\* app.listen can throw while it is called (for instance on a bad port).
ListenErrors == {Str("ERR_SOCKET_BAD_PORT"), Str("ERR_SERVER_ALREADY_LISTEN")}

\* process.env.PORT || 8000
ListenArg(port) == IF Truthy(port) THEN port ELSE Num(DefaultPort)

\* Interpolation of a value in a template string.
ToText(v) == IF v = Undefined THEN "undefined" ELSE v.str

ServerLine(port) == <<"Server: http://localhost:", ToText(port)>>
ErrLine(err) == <<"ERR: ", err>>

\* connectDB() is called and the two reactions are chained on its promise.
ConnectDB ==
    /\ bootPc = "start"
    /\ dbPromise' = [state |-> "pending", val |-> Undefined]
    /\ thenPromise' = [state |-> "pending", val |-> Undefined]
    /\ bootPc' = "connecting"
    /\ UNCHANGED <<envPORT, errorListener, listenCalls, log, exitCode, reqVars, made>>

DbResolves ==
    /\ bootPc = "connecting"
    /\ dbPromise' = [state |-> "resolved", val |-> Undefined]
    /\ bootPc' = "dbSettled"
    /\ UNCHANGED <<envPORT, thenPromise, errorListener, listenCalls, log, exitCode, reqVars, made>>

DbRejects ==
    /\ bootPc = "connecting"
    /\ \E e \in DbErrors : dbPromise' = [state |-> "rejected", val |-> e]
    /\ bootPc' = "dbSettled"
    /\ UNCHANGED <<envPORT, thenPromise, errorListener, listenCalls, log, exitCode, reqVars, made>>

\* A success callback that calls listen without waiting for the connection
\* result: it also runs when connectDB() rejected.
ThenReactionAlways ==
    /\ bootPc = "dbSettled"
    /\ errorListener' = TRUE
    /\ listenCalls' = Append(listenCalls, ListenArg(envPORT))
    /\ thenPromise' = [state |-> "resolved", val |-> Undefined]
    /\ bootPc' = "listenCalled"
    /\ UNCHANGED <<envPORT, dbPromise, log, exitCode, reqVars, made>>

\* The .then reaction: on fulfilment the success callback runs (it registers
\* the error listener and calls app.listen, which returns or throws); on
\* rejection the callback is skipped and the rejection is passed on.
ThenReaction ==
    /\ bootPc = "dbSettled"
    /\ IF dbPromise.state = "resolved"
       THEN /\ errorListener' = TRUE
            /\ listenCalls' = Append(listenCalls, ListenArg(envPORT))
            /\ \/ /\ thenPromise' = [state |-> "resolved", val |-> Undefined]
                  /\ bootPc' = "listenCalled"
               \/ /\ \E e \in ListenErrors : thenPromise' = [state |-> "rejected", val |-> e]
                  /\ bootPc' = "failed"
       ELSE /\ thenPromise' = dbPromise
            /\ bootPc' = "failed"
            /\ UNCHANGED <<errorListener, listenCalls>>
    /\ UNCHANGED <<envPORT, dbPromise, log, exitCode, reqVars, made>>

\* The server is listening and the callback given to listen logs the URL.
ListenCallback ==
    /\ bootPc = "listenCalled"
    /\ log' = Append(log, ServerLine(envPORT))
    /\ bootPc' = "listening"
    /\ UNCHANGED <<envPORT, dbPromise, thenPromise, errorListener, listenCalls, exitCode,
                   reqVars, made>>

\* The .catch reaction, first statement: console.log("ERR: ", err).
CatchLog ==
    /\ bootPc = "failed"
    /\ thenPromise.state = "rejected"
    /\ log' = Append(log, ErrLine(thenPromise.val))
    /\ bootPc' = "logged"
    /\ UNCHANGED <<envPORT, dbPromise, thenPromise, errorListener, listenCalls, exitCode,
                   reqVars, made>>

\* The .catch reaction, second statement: process.exit(1).
CatchExit ==
    /\ bootPc = "logged"
    /\ exitCode' = Num(1)
    /\ bootPc' = "exited"
    /\ UNCHANGED <<envPORT, dbPromise, thenPromise, errorListener, listenCalls, log,
                   reqVars, made>>

InitBoot ==
    /\ NoRequest
    /\ bootPc = "start"
    /\ envPORT \in PortValues
    /\ dbPromise = NoPromise
    /\ thenPromise = NoPromise
    /\ errorListener = FALSE
    /\ listenCalls = <<>>
    /\ log = <<>>
    /\ exitCode = Running
    /\ made = NothingMade

NextBoot ==
    \/ ConnectDB
    \/ DbResolves
    \/ DbRejects
    \/ ThenReaction
    \/ ListenCallback
    \/ CatchLog
    \/ CatchExit

SpecBoot == InitBoot /\ [][NextBoot]_vars

(***************************************************************************)
(* Value objects: ApiResponse and ApiError.                                *)
(***************************************************************************)
StatusCodes == {0, 200, 201, 399, 400, 404, 500}
Payloads == {EmptyObject, EmptyList, UserRecord}
Messages == {Undefined, Str(""), Str("Created"), Str("Not found")}
Stacks == {Undefined, Str(""), Str("Error: at handler")}

\* The stack recorded by Error.captureStackTrace.
CapturedStack == [captured |-> TRUE]

\* A default parameter value applies when the argument is undefined.
Default(arg, dflt) == IF arg = Undefined THEN dflt ELSE arg

\* success computed with <= instead of <.
ApiResponseInclusive(statusCode, data, message) ==
    [statusCode |-> statusCode,
     data |-> data,
     message |-> Default(message, Str("Success")),
     success |-> statusCode <= 400]

ApiResponse(statusCode, data, message) ==
    [statusCode |-> statusCode,
     data |-> data,
     message |-> Default(message, Str("Success")),
     success |-> statusCode < 400]

\* success derived from the status code, as ApiResponse does.
ApiErrorDerived(statusCode, message, stack) ==
    LET m == Default(message, Str("Something went wrong"))
        st == Default(stack, Str(""))
    IN [statusCode |-> statusCode,
        message |-> m,
        success |-> statusCode < 400,
        stack |-> IF Truthy(st) THEN st ELSE CapturedStack]

ApiError(statusCode, message, stack) ==
    LET m == Default(message, Str("Something went wrong"))
        st == Default(stack, Str(""))
    IN [statusCode |-> statusCode,
        message |-> m,
        success |-> FALSE,
        stack |-> IF Truthy(st) THEN st ELSE CapturedStack]

NewApiResponse ==
    /\ \E sc \in StatusCodes, d \in Payloads, m \in Messages :
          made' = [kind |-> "ApiResponse",
                   args |-> [statusCode |-> sc, data |-> d, message |-> m],
                   obj |-> ApiResponse(sc, d, m)]
    /\ UNCHANGED <<reqVars, bootVars>>

NewApiError ==
    /\ \E sc \in StatusCodes, m \in Messages, st \in Stacks :
          made' = [kind |-> "ApiError",
                   args |-> [statusCode |-> sc, message |-> m, stack |-> st],
                   obj |-> ApiError(sc, m, st)]
    /\ UNCHANGED <<reqVars, bootVars>>

InitValue ==
    /\ NoRequest
    /\ ServerUp
    /\ made = NothingMade

NextValue ==
    \/ NewApiResponse
    \/ NewApiError

SpecValue == InitValue /\ [][NextValue]_vars


(***************************************************************************)
(* Properties of request handling (specification Spec).                    *)
(***************************************************************************)
Started == pc # "idle" /\ handler # NoHandler

\* The wrapped handler has returned a promise that rejects / resolves.
Rejects(h) == ~CallEscapes(h) /\ h.end \in {"reject", "throw"}
Resolves(h) == h.end = "resolve"
Failed(h) == h.end \in {"reject", "throw"}

\* The arguments of the calls of next made by the adapter, in order.
RECURSIVE ArgsBy(_, _)
ArgsBy(who, calls) ==
    IF calls = <<>> THEN <<>>
    ELSE IF Head(calls).by = who
         THEN <<Head(calls).arg>> \o ArgsBy(who, Tail(calls))
         ELSE ArgsBy(who, Tail(calls))

AdapterArgs == ArgsBy("adapter", nextCalls)

\* C1: when the promise of the wrapped handler rejects with E, the adapter
\* calls next exactly once, with E, and with no other argument at any point
\* of the request.
C1_RejectionForwardedOnce ==
    (Started /\ Rejects(handler)) =>
        /\ AdapterArgs \in {<<>>, <<handler.val>>}
        /\ pc = "done" => AdapterArgs = <<handler.val>>
        /\ escaped = NoException

C1_Witness ==
    /\ pc = "done"
    /\ handler.name = "h"
    /\ handler.end = "reject"
    /\ handler.val = Str("E1")
    /\ AdapterArgs = <<Str("E1")>>

\* C2: when the promise of the wrapped handler resolves, with any value,
\* the adapter never calls next, in any state of the request.
C2_NoNextOnResolve ==
    (Started /\ Resolves(handler)) => AdapterArgs = <<>>

C2_Witness ==
    /\ pc = "done"
    /\ handler.name = "h"
    /\ handler.end = "resolve"
    /\ handler.val = ResRef
    /\ promise.state = "resolved"
    /\ res.sent
    /\ AdapterArgs = <<>>

\* C3: every failure of the wrapped handler, a rejected promise or a throw
\* while it is being called, reaches next and does not propagate out of the
\* adapted handler to its caller.
C3_EveryFailureReachesNext ==
    (Started /\ Failed(handler) /\ pc = "done") =>
        /\ AdapterArgs = <<handler.val>>
        /\ escaped = NoException

C7_NoWriteByAdapter ==
    (Started /\ Failed(handler) /\ pc \in {"pending", "settled", "done"}) =>
        /\ res = resLeft
        /\ res = ApplyOps(FreshRes, handler.ops)
        /\ AdapterArgs \in {<<>>, <<handler.val>>}

C7_Witness ==
    /\ pc = "done"
    /\ handler.end = "reject"
    /\ handler.ops = <<Status(500), Send(EmptyList)>>
    /\ res.sent
    /\ res.statusCode = 500
    /\ AdapterArgs = <<handler.val>>

C9_LoginNoOp ==
    (Started /\ handler.name = "loginUser") =>
        /\ res = FreshRes
        /\ nextCalls = <<>>
        /\ escaped = NoException
        /\ outcome = "pending"
        /\ pc = "done" => promise = [state |-> "resolved", val |-> Undefined]

C9_Witness ==
    /\ pc = "done"
    /\ handler.name = "loginUser"
    /\ promise.state = "resolved"
    /\ ~res.sent

(***************************************************************************)
(* Properties of the bootstrap (specification SpecBoot).                   *)
(***************************************************************************)
ErrorLogged(e) == \E i \in 1..Len(log) : log[i] = ErrLine(e)

BootOrder ==
    \* listen is called only once connectDB() has resolved, and at most once
    /\ listenCalls # <<>> => dbPromise.state = "resolved"
    /\ dbPromise.state = "rejected" => listenCalls = <<>>
    /\ Len(listenCalls) <= 1
    /\ bootPc \in {"listenCalled", "listening"} =>
          (dbPromise.state = "resolved" /\ thenPromise.state = "resolved" /\ exitCode = Running)
    \* a rejection of connectDB() or a throw in the success callback ends
    \* in the error being logged and exit code 1
    /\ bootPc \in {"logged", "exited"} => ErrorLogged(thenPromise.val)
    /\ bootPc = "exited" => exitCode = Num(1)
    /\ (dbPromise.state = "rejected" /\ bootPc \in {"failed", "logged", "exited"}) =>
          thenPromise = dbPromise
    /\ thenPromise.state = "rejected" => bootPc \in {"failed", "logged", "exited"}
    /\ exitCode # Running => (bootPc = "exited" /\ thenPromise.state = "rejected")

\* C10 as stated: listening starts only after connectDB() resolved; a
\* rejection, or a throw in the success callback, is logged and exits with
\* code 1, without listen in the rejection case; the port is
\* process.env.PORT when it is set and 8000 otherwise.
C10_BootAsStated ==
    /\ BootOrder
    /\ listenCalls # <<>> =>
          listenCalls[1] = (IF envPORT # Undefined THEN envPORT ELSE Num(8000))

\* C10 amended: as above, but the port is process.env.PORT when it is set
\* to a non-empty string, and 8000 when it is unset or empty.
C10_BootAmended ==
    /\ BootOrder
    /\ listenCalls # <<>> =>
          listenCalls[1] =
              (IF envPORT # Undefined /\ envPORT # Str("") THEN envPORT ELSE Num(8000))

C10_Witness ==
    /\ bootPc = "listening"
    /\ envPORT = Str("")
    /\ dbPromise.state = "resolved"
    /\ listenCalls = <<Num(8000)>>

(***************************************************************************)
(* Properties of the value objects (specification SpecValue).              *)
(***************************************************************************)
\* C4: in every ApiResponse success equals (statusCode < 400), true up to
\* 399 and false from 400 on, and the other fields hold the constructor
\* arguments, message being "Success" when it is omitted.
C4_ResponseSuccessFlag ==
    made.kind = "ApiResponse" =>
        /\ made.obj.success = (made.args.statusCode < 400)
        /\ made.args.statusCode \in {0, 200, 201, 399} => made.obj.success = TRUE
        /\ made.args.statusCode \in {400, 404, 500} => made.obj.success = FALSE
        /\ made.obj.statusCode = made.args.statusCode
        /\ made.obj.data = made.args.data
        /\ made.args.message # Undefined => made.obj.message = made.args.message
        /\ made.args.message = Undefined => made.obj.message = Str("Success")

C4_Witness ==
    /\ made.kind = "ApiResponse"
    /\ made.args.statusCode = 400
    /\ made.args.message = Undefined
    /\ made.obj.success = FALSE
    /\ made.obj.message = Str("Success")

\* C5: in every ApiError success is false, whatever the arguments (also
\* for a statusCode below 400); statusCode holds the argument and message
\* is "Something went wrong" when it is omitted.
C5_ErrorSuccessFalse ==
    made.kind = "ApiError" =>
        /\ made.obj.success = FALSE
        /\ made.obj.statusCode = made.args.statusCode
        /\ made.args.message # Undefined => made.obj.message = made.args.message
        /\ made.args.message = Undefined => made.obj.message = Str("Something went wrong")

C5_Witness ==
    /\ made.kind = "ApiError"
    /\ made.args.statusCode = 200
    /\ made.args.message = Undefined
    /\ made.args.stack = Undefined
    /\ made.obj.success = FALSE
    /\ made.obj.message = Str("Something went wrong")

====
